---------------------------- MODULE Spec2Model ----------------------------
(***************************************************************************)
(* Model of update_feed.py: one run of main() discovers the candidate      *)
(* cases, reads the guids of feed.xml, keeps the candidates whose docket   *)
(* is not among them and, for each kept candidate in turn, downloads the   *)
(* asset unless '<docket>.mp3' exists and appends one item to feed.xml.    *)
(*                                                                         *)
(* Text is a sequence of pieces; the piece " " is a whitespace character   *)
(* and every other piece is a run of non-whitespace characters, so that    *)
(* str.strip() is computed and not assumed to be the identity.             *)
(* The disk is the pair (feed, files): feed is feed.xml, files the local   *)
(* asset files by name. File sizes are counted in chunks.                  *)
(***************************************************************************)
EXTENDS Integers, Sequences, FiniteSets, TLC

\* ---------------------------------------------------------------- bounds
MaxCands == 2      \* longest candidate list discover_mp3_links returns
MaxRuns == 2       \* runs of main() in one behaviour
NumChunks == 2     \* chunks of every remote asset

\* ------------------------------------------------------------------ text
WS == " "

RECURSIVE lstrip(_)
lstrip(s) == IF s # <<>> /\ Head(s) = WS THEN lstrip(Tail(s)) ELSE s

RECURSIVE rstrip(_)
rstrip(s) ==
    IF s # <<>> /\ s[Len(s)] = WS THEN rstrip(SubSeq(s, 1, Len(s) - 1)) ELSE s

\* str.strip(): leading and trailing whitespace removed
strip(s) == rstrip(lstrip(s))

\* str(n) for n >= 0: the decimal digits, most significant first
RECURSIVE str(_)
str(n) == IF n < 10 THEN <<n>> ELSE str(n \div 10) \o <<n % 10>>

\* ------------------------------------------------------------ candidates
\* Dockets discover_mp3_links derives: a docket-pattern match, or, when
\* nothing matches, the basename of the href (here of 'audio/ arg.mp3').
CandidatePool ==
    { [docket |-> <<"2024-1001">>, title |-> "Smith v. Jones", mp3_url |-> "u1"],
      [docket |-> <<"2024-1001">>, title |-> "Smith v. Jones II", mp3_url |-> "u2"],
      [docket |-> <<WS, "arg.mp3">>, title |-> "arg", mp3_url |-> "u3"] }

RECURSIVE SeqsUpTo(_, _)
SeqsUpTo(S, n) ==
    IF n = 0 THEN {<<>>}
    ELSE LET shorter == SeqsUpTo(S, n - 1)
         IN  shorter \cup {Append(s, x) : s \in shorter, x \in S}

\* the lists discover_mp3_links can return
CandidateLists == SeqsUpTo(CandidatePool, MaxCands)

\* f"{docket}.mp3"
local_filename(docket) == docket \o <<".mp3">>

FileNames == {local_filename(c.docket) : c \in CandidatePool}

\* byte count (in chunks) the server sends for a url
RemoteSize(mp3_url) == NumChunks

\* --------------------------------------------------------- feed document
NoGuid == <<>>     \* an item without a guid element, or with empty text

Meta == [tag |-> "title", guid |-> NoGuid, title |-> <<>>, url |-> <<>>,
         length |-> <<>>]
OldItem == [tag |-> "item", guid |-> <<"2024-1001">>,
            title |-> <<<<"2024-1001">>, "Smith v. Jones">>,
            url |-> local_filename(<<"2024-1001">>), length |-> str(7)]
BareItem == [tag |-> "item", guid |-> NoGuid, title |-> <<>>, url |-> <<>>,
             length |-> <<>>]

Doc(status, children) == [status |-> status, children |-> children]

\* feed.xml as a run may find it; the guids of a well-formed one are distinct
InitialFeeds ==
    { Doc("ok", <<Meta>>),
      Doc("ok", <<Meta, BareItem, OldItem>>),
      Doc("missing", <<>>),
      Doc("unparseable", <<>>),
      Doc("nochannel", <<>>) }

\* what an interrupted tree.write leaves: the file was opened for writing
\* (truncated) and only part of the serialisation reached it
Truncated == Doc("unparseable", <<>>)

\* mutant: a missing channel is taken for an empty one
parse_fails_unless_no_channel(f) == f.status \notin {"ok", "nochannel"}

\* ET.parse(feed_path) raises, or root.find("channel") is None
parse_fails(f) == f.status # "ok"

\* channel.findall("item")
Items(f) == SelectSeq(f.children, LAMBDA n : n.tag = "item")

VARIABLES feed, files, pc, err, cases, existing_guids, new_cases, idx, size,
          runs, startFeed, startFiles, fetched, repeatDone, feed0

vars == <<feed, files, pc, err, cases, existing_guids, new_cases, idx, size,
          runs, startFeed, startFiles, fetched, repeatDone, feed0>>


\* ------------------------------------------------------------ operations
\* load_existing_guids: raises on a document that does not parse or has no
\* channel; otherwise the stripped text of every item's non-empty guid
load_existing_guids(f) ==
    [raised |-> parse_fails(f),
     guids  |-> {strip(Items(f)[k].guid) :
                    k \in {j \in 1..Len(Items(f)) : Items(f)[j].guid # NoGuid}}]

\* mutant: the docket is stripped before it is looked up
select_new_stripped(cs, guids) ==
    SelectSeq(cs, LAMBDA c : strip(c.docket) \notin guids)

\* new_cases = [c for c in cases if c["docket"] not in existing_guids]
select_new(cs, guids) == SelectSeq(cs, LAMBDA c : c.docket \notin guids)

\* the item node add_item_to_feed builds
NewItem(case, name, file_size) ==
    [tag |-> "item", guid |-> case.docket, title |-> <<case.docket, case.title>>,
     url |-> name, length |-> str(file_size)]

\* mutant: the new item is put first in the channel
add_item_to_feed_first(f, case, name, file_size) ==
    Doc(f.status, <<NewItem(case, name, file_size)>> \o f.children)

\* add_item_to_feed, when tree.write completes
add_item_to_feed(f, case, name, file_size) ==
    Doc(f.status, Append(f.children, NewItem(case, name, file_size)))

\* mutant: the existence check never finds the file
os_path_exists_never(fs, name) == FALSE

\* os.path.exists / os.path.getsize
os_path_exists(fs, name) == fs[name].exists
os_path_getsize(fs, name) == fs[name].size

File(n) == [exists |-> TRUE, size |-> n]
NoFile == [exists |-> FALSE, size |-> 0]

case == new_cases[idx]
BetweenRuns == pc \in {"idle", "done", "error"}

\* ------------------------------------------------------------------ Init
Init ==
    /\ feed \in InitialFeeds
    /\ feed0 = feed
    /\ files = [n \in FileNames |-> NoFile]
    /\ pc = "idle"
    /\ err = "none"
    /\ cases = <<>>
    /\ existing_guids = {}
    /\ new_cases = <<>>
    /\ idx = 0
    /\ size = 0
    /\ runs = 0
    /\ startFeed = feed
    /\ startFiles = files
    /\ fetched = {}
    /\ repeatDone = FALSE

\* --------------------------------------------------------------- actions
\* main(), lines 108-121: discover, load the guids, filter, return if empty
MainStart(cs) ==
    /\ BetweenRuns
    /\ runs < MaxRuns
    /\ runs' = runs + 1
    /\ cases' = cs
    /\ repeatDone' = (pc = "done" /\ cs = cases)
    /\ startFeed' = feed
    /\ startFiles' = files
    /\ fetched' = {}
    /\ size' = 0
    /\ LET loaded == load_existing_guids(feed)
       IN  IF loaded.raised
           THEN /\ pc' = "error"
                /\ err' = "load"
                /\ existing_guids' = {}
                /\ new_cases' = <<>>
                /\ idx' = 0
           ELSE /\ existing_guids' = loaded.guids
                /\ new_cases' = select_new(cs, loaded.guids)
                /\ err' = "none"
                /\ IF new_cases' = <<>>
                   THEN pc' = "done" /\ idx' = 0
                   ELSE pc' = "loop" /\ idx' = 1
    /\ UNCHANGED <<feed, files, feed0>>

\* fetch_html raises inside discover_mp3_links: the run ends before the
\* feed is read
DiscoverFails ==
    /\ BetweenRuns
    /\ runs < MaxRuns
    /\ runs' = runs + 1
    /\ pc' = "error"
    /\ err' = "index"
    /\ cases' = <<>>
    /\ repeatDone' = FALSE
    /\ startFeed' = feed
    /\ startFiles' = files
    /\ fetched' = {}
    /\ size' = 0
    /\ existing_guids' = {}
    /\ new_cases' = <<>>
    /\ idx' = 0
    /\ UNCHANGED <<feed, files, feed0>>

\* download_mp3 returns: the file holds every chunk
DownloadOk ==
    /\ pc = "loop"
    /\ ~os_path_exists(files, local_filename(case.docket))
    /\ files' = [files EXCEPT ![local_filename(case.docket)] =
                                  File(RemoteSize(case.mp3_url))]
    /\ size' = os_path_getsize(files', local_filename(case.docket))
    /\ fetched' = fetched \cup {idx}
    /\ pc' = "append"
    /\ UNCHANGED <<feed, err, cases, existing_guids, new_cases, idx, runs,
                   startFeed, startFiles, repeatDone, feed0>>

\* mutant: the failure is caught and the entry appended all the same
DownloadFails_appends(opened, written) ==
    /\ pc = "loop"
    /\ ~os_path_exists(files, local_filename(case.docket))
    /\ files' = IF opened
                THEN [files EXCEPT ![local_filename(case.docket)] = File(written)]
                ELSE files
    /\ fetched' = fetched \cup {idx}
    /\ feed' = add_item_to_feed(feed, case, local_filename(case.docket),
                                os_path_getsize(files', local_filename(case.docket)))
    /\ pc' = "error"
    /\ err' = "fetch"
    /\ UNCHANGED <<cases, existing_guids, new_cases, idx, size, runs,
                   startFeed, startFiles, repeatDone, feed0>>

\* download_mp3 raises: before the file is opened (opened = FALSE: the
\* request or raise_for_status fails), or while streaming, with written
\* chunks in the file. Nothing in main catches it.
DownloadFails(opened, written) ==
    /\ pc = "loop"
    /\ ~os_path_exists(files, local_filename(case.docket))
    /\ files' = IF opened
                THEN [files EXCEPT ![local_filename(case.docket)] = File(written)]
                ELSE files
    /\ fetched' = fetched \cup {idx}
    /\ pc' = "error"
    /\ err' = "fetch"
    /\ UNCHANGED <<feed, cases, existing_guids, new_cases, idx, size, runs,
                   startFeed, startFiles, repeatDone, feed0>>

\* the else branch: the file exists, no download
SkipFetch ==
    /\ pc = "loop"
    /\ os_path_exists(files, local_filename(case.docket))
    /\ size' = os_path_getsize(files, local_filename(case.docket))
    /\ pc' = "append"
    /\ UNCHANGED <<feed, files, err, cases, existing_guids, new_cases, idx,
                   runs, startFeed, startFiles, fetched, repeatDone, feed0>>

\* add_item_to_feed returns; the loop moves on or main returns
AddItem ==
    /\ pc = "append"
    /\ ~parse_fails(feed)
    /\ feed' = add_item_to_feed(feed, case, local_filename(case.docket), size)
    /\ IF idx < Len(new_cases)
       THEN pc' = "loop" /\ idx' = idx + 1
       ELSE pc' = "done" /\ idx' = idx
    /\ UNCHANGED <<files, err, cases, existing_guids, new_cases, size, runs,
                   startFeed, startFiles, fetched, repeatDone, feed0>>

\* add_item_to_feed does not return: ET.parse raises (feed untouched), or
\* tree.write, which opens feed.xml for writing in place, is interrupted or
\* fails after the open
AddItemFails ==
    /\ pc = "append"
    /\ feed' = IF parse_fails(feed) THEN feed ELSE Truncated
    /\ pc' = "error"
    /\ err' = "write"
    /\ UNCHANGED <<files, cases, existing_guids, new_cases, idx, size, runs,
                   startFeed, startFiles, fetched, repeatDone, feed0>>

Next ==
    \/ \E cs \in CandidateLists : MainStart(cs)
    \/ DiscoverFails
    \/ DownloadOk
    \/ \E opened \in BOOLEAN, written \in 0..(NumChunks - 1) :
          /\ (~opened => written = 0)
          /\ DownloadFails(opened, written)
    \/ SkipFetch
    \/ AddItem
    \/ AddItemFails

Spec == Init /\ [][Next]_vars

\* ---------------------------------------------------------------- claims
Appended(j) == NewItem(new_cases[j], local_filename(new_cases[j].docket),
                       os_path_getsize(files, local_filename(new_cases[j].docket)))

\* C1: no two item nodes of the document carry the same guid, the initial
\* document having pairwise distinct guids, whatever lists the runs found.
C1_UniqueGuids ==
    \A i, j \in 1..Len(Items(feed)) :
        (i # j /\ Items(feed)[i].guid # NoGuid) =>
            Items(feed)[i].guid # Items(feed)[j].guid

\* C2: a run that follows a completed run over the same candidate list finds
\* nothing new: the work list is empty, nothing is fetched, and the document
\* stays as the first run left it.
C2_Idempotent ==
    repeatDone =>
        /\ new_cases = <<>>
        /\ fetched = {}
        /\ feed = startFeed
        /\ files = startFiles

\* C3: an append leaves on disk either the document as it was or the
\* document with the new entry, whether or not add_item_to_feed returns.
C3_AtomicAppend ==
    [][pc = "append" =>
          \/ feed' = feed
          \/ feed' = add_item_to_feed(feed, case, local_filename(case.docket),
                                      size)]_vars

\* C4: a completed add_item_to_feed keeps every child of the channel, in
\* order and unchanged, and adds exactly one item node after them.
C4_AppendFrame ==
    [][(pc = "append" /\ pc' # "error") =>
          /\ feed'.status = feed.status
          /\ Len(feed'.children) = Len(feed.children) + 1
          /\ SubSeq(feed'.children, 1, Len(feed.children)) = feed.children
          /\ feed'.children[Len(feed'.children)].tag = "item"
          /\ feed'.children[Len(feed'.children)].guid = case.docket]_vars

C4_Witness ==
    /\ pc \in {"loop", "done"}
    /\ Len(startFeed.children) > 1
    /\ Len(feed.children) > Len(startFeed.children)

\* C5: after a completed add_item_to_feed for a candidate whose docket
\* load_existing_guids did not hold, load_existing_guids holds the docket as
\* the candidate carries it, and there is exactly one more item.
C5_AppendThenFound ==
    [][(/\ pc = "append"
        /\ pc' # "error"
        /\ case.docket \notin load_existing_guids(feed).guids) =>
          /\ case.docket \in load_existing_guids(feed').guids
          /\ Len(Items(feed')) = Len(Items(feed)) + 1]_vars

\* C6: the work list is exactly the candidates whose docket is not in the
\* existing set, in discovery order, repeated dockets all kept; with an
\* empty set it is the candidate list.
C6_SelectNewExact ==
    (runs > 0 /\ err \notin {"load", "index"}) =>
        LET keep == {i \in 1..Len(cases) : cases[i].docket \notin existing_guids}
            nth(j) == CHOOSE i \in keep : Cardinality({k \in keep : k <= i}) = j
        IN  /\ Len(new_cases) = Cardinality(keep)
            /\ \A j \in 1..Len(new_cases) : new_cases[j] = cases[nth(j)]
            /\ (existing_guids = {} => new_cases = cases)
            /\ existing_guids = load_existing_guids(startFeed).guids

C6_Witness ==
    /\ pc = "loop"
    /\ existing_guids # {}
    /\ Len(new_cases) >= 1
    /\ Len(new_cases) < Len(cases)

\* C7: when download_mp3 fails for item k of the work list the run ends
\* there, the document being the starting document followed by the entries
\* of items 1..k-1 in order; and an entry is appended only once its asset
\* is on disk.
C7_FetchFailureAborts ==
    /\ (pc = "error" /\ err = "fetch") =>
          /\ idx \in 1..Len(new_cases)
          /\ idx \in fetched
          /\ feed.status = "ok"
          /\ Len(feed.children) = Len(startFeed.children) + idx - 1
          /\ SubSeq(feed.children, 1, Len(startFeed.children)) = startFeed.children
          /\ \A j \in 1..(idx - 1) :
                feed.children[Len(startFeed.children) + j] = Appended(j)
    /\ pc = "append" =>
          /\ os_path_exists(files, local_filename(case.docket))
          /\ size = os_path_getsize(files, local_filename(case.docket))
          /\ Len(feed.children) = Len(startFeed.children) + idx - 1

C7_Witness ==
    /\ pc = "error"
    /\ err = "fetch"
    /\ idx = 2
    /\ Len(feed.children) = Len(startFeed.children) + 1

\* C8: for a new candidate whose local file exists, main calls no download
\* and leaves the file alone, and the entry then appended carries the byte
\* size of that file.
C8_ExistingFileSkipsFetch ==
    [][/\ (pc = "loop" /\ files[local_filename(case.docket)].exists) =>
             /\ pc' = "append"
             /\ fetched' = fetched
             /\ files' = files
             /\ size' = files[local_filename(case.docket)].size
       /\ (pc = "append" /\ idx \notin fetched /\ pc' # "error") =>
             /\ files' = files
             /\ feed'.children =
                   Append(feed.children,
                          [tag |-> "item", guid |-> case.docket,
                           title |-> <<case.docket, case.title>>,
                           url |-> local_filename(case.docket),
                           length |-> str(files[local_filename(case.docket)].size)])
      ]_vars

C8_Witness ==
    /\ pc = "done"
    /\ idx >= 1
    /\ idx \notin fetched
    /\ Len(feed.children) = Len(startFeed.children) + idx

\* C9: over a document that is missing, unparseable or without a channel
\* the run ends in an error before any processing: nothing is fetched, no
\* file is created and the document is not written.
C9_MalformedAborts ==
    (runs > 0 /\ startFeed.status # "ok") =>
        /\ pc = "error"
        /\ err \in {"load", "index"}
        /\ new_cases = <<>>
        /\ fetched = {}
        /\ files = startFiles
        /\ feed = startFeed

C9_Witness ==
    /\ runs > 0
    /\ startFeed.status = "nochannel"
    /\ err = "load"
    /\ cases # <<>>

\* C10: starting with no local asset files, every item the runs appended
\* has the full byte size of the remote asset as its enclosure length.
C10_FullAssetsOnly ==
    \A k \in (Len(feed0.children) + 1)..Len(feed.children) :
        feed.children[k].length = str(NumChunks)

=============================================================================
